---- MODULE Spec2Model ----
(***************************************************************************)
(* Behavioural model of the uni-app frontend skill bundle: the page        *)
(* template (assets/page-template.vue), the data-fetching pattern of       *)
(* SKILL.md, the list and form pages of references/page-patterns.md and    *)
(* the Pinia theme store of references/theme-guide.md.                     *)
(*                                                                         *)
(* JavaScript handlers run to completion: one action is one handler, or    *)
(* the part of an async function between two awaits.  What a handler does  *)
(* is written as its statement list, in source order, and executed by Run, *)
(* which also appends every executed statement to the effect log.          *)
(***************************************************************************)
EXTENDS Integers, Sequences, FiniteSets, TLC

VARIABLES
  pattern,      \* which loading page: "template" | "skill" | "list"
  wired,        \* FALSE: the placeholder as written; TRUE: the TODO's API call
  phase,        \* page lifecycle: "created" | "loaded"
  loading,      \* ref(false)
  items,        \* ref<Item[]>([])
  error,        \* ref<string | null>(null), as an option: <<>> is null
  calls,        \* loadData invocations: [pc, promise], in invocation order
  log,          \* every statement executed so far, in execution order
  currentTab,   \* list page: ref(0)
  searchText,   \* list page: ref(""), as a sequence of characters
  \* the theme store and its surroundings
  currentTheme, \* state.currentTheme
  storage,      \* what uni storage holds under 'theme', as an option
  console,      \* the console.error messages written so far
  platform,     \* the platform the app was compiled for
  listening,    \* whether the uni.onThemeChange callback is registered
  lastOp,       \* the last operation on the store and its argument
  lastSet,      \* the name of the last setTheme call that reported no error
  loadedFresh,  \* whether the last operation was loadSavedTheme on a new store
  \* the form page
  submitting,   \* ref(false)
  fcalls,       \* handleSubmit invocations: [pc, validate, api]
  flog,         \* every statement the form page executed, in order
  timers,       \* pending setTimeout(() => uni.navigateBack(), 1500) callbacks
  navBacks,     \* uni.navigateBack() calls made
  \* compiling the pages' style blocks
  injected,     \* whether vite.config.ts injects theme.scss (additionalData)
  styleSheet,   \* the page whose <style lang="scss"> is being compiled, or "none"
  stylePos,     \* how many variable references of it are resolved
  styleError,   \* the undefined variable the compiler stopped at, as an option
  compiledOk,   \* the pages whose style block has compiled
  \* the user store
  token,        \* state.token
  userInfo,     \* state.userInfo
  ucalls,       \* login invocations: [pc, promise, before, clean]
  logoutAt,     \* how many logins had started when logout last ran, as an option
  lastUserOp,   \* the last step of the user store: [op, call]
  \* the request wrapper
  wrapperToken, \* "let token" of utils/request.ts
  heap,         \* the options objects callers hold: [header, supplied]
  sent,         \* what uni.request was called with: [options, header, token]
  \* navigation from a list to the detail page
  shown,        \* the items the list displays
  route,        \* the page on top of the stack: "list" | "detail"
  options,      \* the query the detail page was opened with: [id], id an option
  pageLoaded,   \* whether the detail page's onLoad has run
  visits        \* detail page visits so far: [via, id, options, loadDetail]

pageVars == <<pattern, wired, phase, loading, items, error, calls, log,
              currentTab, searchText>>

themeVars == <<currentTheme, storage, console, platform, listening, lastOp,
               lastSet, loadedFresh>>

formVars == <<submitting, fcalls, flog, timers, navBacks>>

styleVars == <<injected, styleSheet, stylePos, styleError, compiledOk>>

userVars == <<token, userInfo, ucalls, logoutAt, lastUserOp>>

requestVars == <<wrapperToken, heap, sent>>

detailVars == <<shown, route, options, pageLoaded, visits>>

vars == <<pageVars, themeVars, formVars, styleVars, userVars, requestVars,
          detailVars>>

\* what the events of one part leave alone
notPage == <<themeVars, formVars, styleVars, userVars, requestVars, detailVars>>
notTheme == <<pageVars, formVars, styleVars, userVars, requestVars, detailVars>>
notForm == <<pageVars, themeVars, styleVars, userVars, requestVars, detailVars>>
notStyle == <<pageVars, themeVars, formVars, userVars, requestVars, detailVars>>
notUser == <<pageVars, themeVars, formVars, styleVars, requestVars, detailVars>>
notRequest == <<pageVars, themeVars, formVars, styleVars, userVars, detailVars>>
notDetail == <<pageVars, themeVars, formVars, styleVars, userVars, requestVars>>

-----------------------------------------------------------------------------
(* Bounds *)

\* loadData invocations per page visit
MaxLoads == 3

\* console.error messages kept
MaxConsole == 2

\* handleSubmit invocations per page visit
MaxSubmits == 3

\* login invocations
MaxLogins == 3

\* options objects the callers of request hold, and request invocations
MaxOptions == 2
MaxRequests == 2

\* visits of the detail page
MaxVisits == 2

-----------------------------------------------------------------------------
(* Values *)

Null == <<>>
Some(x) == <<x>>

Patterns == {"template", "skill", "list"}

\* Item of the list page; title is a sequence of characters
Item(i, t, s) == [id |-> i, title |-> t, status |-> s]

\* what api.getItems() may return
ApiResults ==
  { <<>>,
    <<Item(0, <<"A", "b">>, 0)>>,
    <<Item(0, <<"A", "b">>, 0), Item(1, <<"b", "a">>, 1)>>,
    <<Item(2, <<"a">>, 2), Item(0, <<"A", "b">>, 0)>> }

\* what an awaited call may throw: Error objects and one non-Error value that
\* carries a message property all the same
Thrown ==
  { [isError |-> TRUE,  message |-> "timeout"],
    [isError |-> TRUE,  message |-> ""],
    [isError |-> FALSE, message |-> "boom"] }

Pending == [kind |-> "pending", data |-> <<>>, isError |-> FALSE, message |-> ""]
Resolved(d) == [kind |-> "resolved", data |-> d, isError |-> FALSE, message |-> ""]
Rejected(e) ==
  [kind |-> "rejected", data |-> <<>>, isError |-> e.isError, message |-> e.message]

\* The placeholder of the page template awaits a timer, which only resolves;
\* an API call resolves with data or throws.
Outcomes(p, w) ==
  IF p = "template" /\ ~w
  THEN {Resolved(<<>>)}
  ELSE {Resolved(d) : d \in ApiResults} \cup {Rejected(e) : e \in Thrown}

SearchTexts == { <<>>, <<"a">>, <<"B">>, <<"B", "A">> }
TabIndexes == 0..2

-----------------------------------------------------------------------------
(* Statements and their execution *)

Stmt(o, f, t, l) == [op |-> o, flag |-> f, text |-> t, list |-> l]
SetLoading(b) == Stmt("loading", b, Null, <<>>)
SetError(t) == Stmt("error", FALSE, t, <<>>)
SetItems(l) == Stmt("items", FALSE, Null, l)
\* uni.showToast({ title: error.value, icon: "none" })
ToastErrorValue == Stmt("toast", FALSE, Null, <<>>)
Await == Stmt("await", FALSE, Null, <<>>)

\* One statement of call c on the page state st; the log keeps the statement
\* with the values it used (a toast's title is error.value when it runs).
Exec(st, s, c) ==
  LET done == IF s.op = "toast" THEN [s EXCEPT !.text = st.error] ELSE s
      entry == [call |-> c, op |-> done.op, flag |-> done.flag,
                text |-> done.text, list |-> done.list]
  IN  [loading |-> IF s.op = "loading" THEN s.flag ELSE st.loading,
       error   |-> IF s.op = "error" THEN s.text ELSE st.error,
       items   |-> IF s.op = "items" THEN s.list ELSE st.items,
       log     |-> Append(st.log, entry)]

RECURSIVE Run(_, _, _)
Run(st, stmts, c) ==
  IF stmts = <<>> THEN st
  ELSE Run(Exec(st, Head(stmts), c), Tail(stmts), c)

PageState == [loading |-> loading, error |-> error, items |-> items, log |-> log]

-----------------------------------------------------------------------------
(* loadData *)

\* Faulty variant: the message of whatever was thrown, Error or not
ErrorText_AnyMessage(e) == e.message

\* err instanceof Error ? err.message : "Failed to load data"
ErrorText(e) == IF e.isError THEN e.message ELSE "Failed to load data"

\* Faulty variant: error keeps the message of the previous load
LoadDataEntry_NoErrorReset(p) == <<SetLoading(TRUE)>>

\* Faulty variant: loading is not raised before the await
LoadDataEntry_NoLoadingFlag(p) ==
  IF p = "list" THEN <<>> ELSE <<SetError(Null)>>

\* loadData up to its await
LoadDataEntry(p) ==
  IF p = "list"
  THEN <<SetLoading(TRUE)>>
  ELSE <<SetLoading(TRUE), SetError(Null)>>

\* the try block after the awaited call has resolved with data d
TryBody(p, w, d) ==
  IF w \/ p = "skill" THEN <<SetItems(d)>> ELSE <<SetItems(<<>>)>>

\* the catch block for the thrown value e; the list page has none
CatchBlock(p, e) ==
  CASE p = "template" -> <<SetError(Some(ErrorText(e))), ToastErrorValue>>
    [] p = "skill"    -> <<SetError(Some("Failed to load data")), ToastErrorValue>>
    [] OTHER          -> <<>>

FinallyBlock == <<SetLoading(FALSE)>>

\* Faulty variant: loading is cleared at the end of the try block, not in a finally
Continuation_NoFinallyOnThrow(p, w, o) ==
  IF o.kind = "resolved"
  THEN TryBody(p, w, o.data) \o FinallyBlock
  ELSE CatchBlock(p, o)

\* Faulty variant: loading is cleared before items is assigned
Continuation_ClearsFirst(p, w, o) ==
  IF o.kind = "resolved"
  THEN FinallyBlock \o TryBody(p, w, o.data)
  ELSE CatchBlock(p, o) \o FinallyBlock

\* what runs once the awaited promise has settled with o
Continuation(p, w, o) ==
  IF o.kind = "resolved"
  THEN TryBody(p, w, o.data) \o FinallyBlock
  ELSE CatchBlock(p, o) \o FinallyBlock

\* the list page as written awaits nothing: loadData runs in one piece
Synchronous(p, w) == p = "list" /\ ~w

loadData ==
  LET c == Len(calls) + 1 IN
  IF Synchronous(pattern, wired)
  THEN LET st == Run(PageState,
                     LoadDataEntry(pattern) \o Continuation(pattern, wired, Resolved(<<>>)),
                     c)
       IN  /\ loading' = st.loading
           /\ error' = st.error
           /\ items' = st.items
           /\ log' = st.log
           /\ calls' = Append(calls, [pc |-> "done", promise |-> Resolved(<<>>)])
  ELSE LET st == Run(PageState, LoadDataEntry(pattern) \o <<Await>>, c)
       IN  /\ loading' = st.loading
           /\ error' = st.error
           /\ items' = st.items
           /\ log' = st.log
           /\ calls' = Append(calls, [pc |-> "awaiting", promise |-> Pending])

\* the awaited promise of call c settles (timer fires, request returns)
awaitSettles(c, o) ==
  /\ c \in 1..Len(calls)
  /\ calls[c].pc = "awaiting"
  /\ calls[c].promise.kind = "pending"
  /\ o \in Outcomes(pattern, wired)
  /\ calls' = [calls EXCEPT ![c].promise = o]
  /\ UNCHANGED <<pattern, wired, phase, loading, items, error, log,
                 currentTab, searchText>>

\* call c resumes after its await
loadDataResume(c) ==
  /\ c \in 1..Len(calls)
  /\ calls[c].pc = "awaiting"
  /\ calls[c].promise.kind # "pending"
  /\ LET st == Run(PageState, Continuation(pattern, wired, calls[c].promise), c)
     IN  /\ loading' = st.loading
         /\ error' = st.error
         /\ items' = st.items
         /\ log' = st.log
  /\ calls' = [calls EXCEPT ![c].pc = "done"]
  /\ UNCHANGED <<pattern, wired, phase, currentTab, searchText>>

-----------------------------------------------------------------------------
(* The list page's computed list *)

toLowerCase(ch) ==
  CASE ch = "A" -> "a"
    [] ch = "B" -> "b"
    [] OTHER    -> ch

LowerAll(s) == [i \in 1..Len(s) |-> toLowerCase(s[i])]

\* String.prototype.includes
includes(hay, needle) ==
  \E i \in 0..(Len(hay) - Len(needle)) :
    SubSeq(hay, i + 1, i + Len(needle)) = needle

Filter(list, Keep(_)) == SelectSeq(list, Keep)

\* const statusTabs = [{ name: "All" }, { name: "Pending" }, { name: "Completed" }]
statusTabs == <<[name |-> "All"], [name |-> "Pending"], [name |-> "Completed"]>>

\* getStatusText: map[status] || "Unknown"
getStatusText(status) ==
  LET map == (0 :> "Pending") @@ (1 :> "Completed")
  IN  IF status \in DOMAIN map THEN map[status] ELSE "Unknown"

\* Faulty variant: the tab index is compared with the status as it is
filteredItems_TabIndexAsStatus ==
  LET byTab(item) == item.status = currentTab
      bySearch(item) == includes(LowerAll(item.title), LowerAll(searchText))
      l1 == IF currentTab > 0 THEN Filter(items, byTab) ELSE items
  IN  IF searchText # <<>> THEN Filter(l1, bySearch) ELSE l1

\* Faulty variant: the search compares the texts as typed
filteredItems_CaseSensitive ==
  LET byTab(item) == item.status = currentTab - 1
      bySearch(item) == includes(item.title, searchText)
      l1 == IF currentTab > 0 THEN Filter(items, byTab) ELSE items
  IN  IF searchText # <<>> THEN Filter(l1, bySearch) ELSE l1

filteredItems ==
  LET byTab(item) == item.status = currentTab - 1
      bySearch(item) == includes(LowerAll(item.title), LowerAll(searchText))
      l1 == IF currentTab > 0 THEN Filter(items, byTab) ELSE items
  IN  IF searchText # <<>> THEN Filter(l1, bySearch) ELSE l1

-----------------------------------------------------------------------------
(* What the template renders *)

\* the list the page shows
Displayed == IF pattern = "list" THEN filteredItems ELSE items

\* v-if="loading"
LoadingShown == loading

\* Faulty variant: v-if="items.length === 0"
EmptyShown_IgnoresLoading == Len(Displayed) = 0

\* Faulty variant: v-if="!loading && items.length === 0" on the list page too
EmptyShown_UnfilteredList == ~loading /\ Len(items) = 0

\* v-if="!loading && items.length === 0" (list page: filteredItems.length)
EmptyShown == ~loading /\ Len(Displayed) = 0

\* the Refresh button sits in the #extra slot of the page template's u-empty
RefreshRendered == pattern = "template" /\ EmptyShown

-----------------------------------------------------------------------------
(* Page events *)

\* onLoad((options) => { ...; loadData(); })
onLoad ==
  /\ pattern = "template"
  /\ phase = "created"
  /\ phase' = "loaded"
  /\ loadData
  /\ UNCHANGED <<pattern, wired, currentTab, searchText>>

\* onMounted(() => { loadData(); })
onMounted ==
  /\ pattern \in {"skill", "list"}
  /\ phase = "created"
  /\ phase' = "loaded"
  /\ loadData
  /\ UNCHANGED <<pattern, wired, currentTab, searchText>>

\* a click on the Refresh button: onRefresh = () => { loadData(); }
onRefresh ==
  /\ phase = "loaded"
  /\ RefreshRendered
  /\ Len(calls) < MaxLoads
  /\ loadData
  /\ UNCHANGED <<pattern, wired, phase, currentTab, searchText>>

\* a click on a tab of the list page
handleTabClick(index) ==
  /\ pattern = "list"
  /\ phase = "loaded"
  /\ currentTab' = index
  /\ UNCHANGED <<pattern, wired, phase, loading, items, error, calls, log,
                 searchText>>

\* typing into the search bar (v-model="searchText")
inputSearch(text) ==
  /\ pattern = "list"
  /\ phase = "loaded"
  /\ searchText' = text
  /\ UNCHANGED <<pattern, wired, phase, loading, items, error, calls, log,
                 currentTab>>


-----------------------------------------------------------------------------
(* Design tokens and the pages' style blocks *)

\* Faulty variant: the theme file with the names the theme guide uses
ThemeTokens_GuideNames ==
  { "primary", "success", "warning", "error", "info",
    "text-primary", "text-regular", "text-secondary", "text-placeholder",
    "bg-page", "bg-card", "bg-hover", "bg-active",
    "spacing-xs", "spacing-sm", "spacing-md", "spacing-lg", "spacing-xl",
    "font-size-xs", "font-size-sm", "font-size-base", "font-size-lg", "font-size-xl",
    "border-radius-sm", "border-radius-md", "border-radius-lg",
    "border-radius-circle" }

\* the variables src/styles/theme.scss defines (SKILL.md, Basic Theme Setup)
ThemeTokens ==
  { "theme-primary", "theme-success", "theme-warning", "theme-error",
    "color-text-primary", "color-text-regular", "color-text-secondary",
    "color-bg-page", "color-bg-card",
    "spacing-xs", "spacing-sm", "spacing-md", "spacing-lg", "spacing-xl",
    "font-size-xs", "font-size-sm", "font-size-base", "font-size-lg", "font-size-xl",
    "border-radius-sm", "border-radius-md", "border-radius-lg",
    "border-radius-circle" }

StylePages == {"template", "list", "detail", "form", "search", "empty"}

\* the variable references of each page's style block, in source order
StyleRefs(p) ==
  CASE p = "template" ->
         << "color-bg-page", "color-bg-card", "spacing-md", "spacing-md",
            "font-size-xl", "color-text-primary", "spacing-xs", "font-size-sm",
            "color-text-secondary", "spacing-md", "spacing-xl" >>
    [] p = "list" ->
         << "color-bg-page", "spacing-md", "color-bg-card", "spacing-md",
            "color-bg-card", "border-radius-md", "spacing-md", "spacing-md",
            "spacing-sm", "font-size-base", "color-text-primary", "spacing-sm",
            "spacing-xs", "font-size-sm", "color-text-secondary", "spacing-lg" >>
    [] p = "detail" ->
         << "color-bg-page", "color-bg-card", "spacing-md", "spacing-md",
            "spacing-sm", "font-size-xl", "color-text-primary", "font-size-sm",
            "color-text-secondary", "spacing-sm", "font-size-lg",
            "color-text-primary", "spacing-sm", "font-size-base",
            "color-text-secondary", "font-size-base", "color-text-primary",
            "font-size-base", "color-text-primary", "color-bg-card", "spacing-md" >>
    [] p = "form" -> << "spacing-md", "spacing-xl" >>
    [] p = "search" ->
         << "spacing-md", "spacing-md", "spacing-md", "font-size-base",
            "color-text-primary", "spacing-sm", "spacing-md", "font-size-sm",
            "color-text-secondary" >>
    [] OTHER -> << >>

\* the variables in scope of a style block: none of the blocks defines any, so
\* they are those of the injected theme file
InScope == IF injected THEN ThemeTokens ELSE {}

\* the compiler takes up a page's style block
compileStart(p) ==
  /\ styleSheet = "none"
  /\ p \notin compiledOk
  /\ styleSheet' = p
  /\ stylePos' = 0
  /\ styleError' = Null
  /\ UNCHANGED <<injected, compiledOk>>

\* it resolves the next variable reference, or stops: Undefined variable
resolveNext ==
  /\ styleSheet # "none"
  /\ styleError = Null
  /\ stylePos < Len(StyleRefs(styleSheet))
  /\ LET name == StyleRefs(styleSheet)[stylePos + 1]
     IN  IF name \in InScope
         THEN stylePos' = stylePos + 1 /\ UNCHANGED styleError
         ELSE styleError' = Some(name) /\ UNCHANGED stylePos
  /\ UNCHANGED <<injected, styleSheet, compiledOk>>

\* every reference is resolved: the block has compiled
compileEnd ==
  /\ styleSheet # "none"
  /\ styleError = Null
  /\ stylePos = Len(StyleRefs(styleSheet))
  /\ compiledOk' = compiledOk \cup {styleSheet}
  /\ styleSheet' = "none"
  /\ UNCHANGED <<injected, stylePos, styleError>>

\* after an error the developer fixes nothing and the build is tried again
compileAbort ==
  /\ styleSheet # "none"
  /\ styleError # Null
  /\ styleSheet' = "none"
  /\ UNCHANGED <<injected, stylePos, styleError, compiledOk>>

StyleIdle ==
  /\ styleSheet = "none"
  /\ stylePos = 0
  /\ styleError = Null
  /\ compiledOk = {}

-----------------------------------------------------------------------------
(* The form page *)

\* how formRef.value.validate() may settle
ValidateResults == {"truthy", "falsy", "rejected"}

\* how api.submitForm(form) may settle
ApiSubmitResults == {"resolved", "rejected"}

FStmt(o, f) == [op |-> o, flag |-> f]
SetSubmitting(b) == FStmt("submitting", b)
\* uni.showToast({ title: "Success", icon: "success" })
ToastSuccess == FStmt("toastSuccess", FALSE)
\* setTimeout(() => { uni.navigateBack(); }, 1500)
SetTimeoutBack == FStmt("setTimeout", FALSE)
\* console.error(error)
ConsoleError == FStmt("consoleError", FALSE)
AwaitValidate == FStmt("awaitValidate", FALSE)
AwaitApi == FStmt("awaitApi", FALSE)

FormExec(st, s, c) ==
  [submitting |-> IF s.op = "submitting" THEN s.flag ELSE st.submitting,
   timers     |-> IF s.op = "setTimeout" THEN st.timers + 1 ELSE st.timers,
   flog       |-> Append(st.flog, [call |-> c, op |-> s.op, flag |-> s.flag])]

RECURSIVE FormRun(_, _, _)
FormRun(st, stmts, c) ==
  IF stmts = <<>> THEN st
  ELSE FormRun(FormExec(st, Head(stmts), c), Tail(stmts), c)

FormState == [submitting |-> submitting, timers |-> timers, flog |-> flog]

\* the statements of handleSubmit that put something on the screen: its one
\* uni.showToast call; console.error writes to the developer console only
UserVisibleOps == {"toastSuccess"}

SuccessTail == <<ToastSuccess, SetTimeoutBack>>
SubmitCatch == <<ConsoleError>>
\* Faulty variant: handleSubmit without its finally block
SubmitFinally_Missing == <<>>

SubmitFinally == <<SetSubmitting(FALSE)>>

\* Faulty variant: handleSubmit without "if (!valid) return"
AfterValidate_ValidIgnored(w, v) ==
  CASE v = "rejected" -> SubmitCatch \o SubmitFinally
    [] w              -> <<SetSubmitting(TRUE), AwaitApi>>
    [] OTHER          -> <<SetSubmitting(TRUE)>> \o SuccessTail \o SubmitFinally

\* handleSubmit from the point where validate() has settled with v, up to the
\* next await or the end
AfterValidate(w, v) ==
  CASE v = "rejected" -> SubmitCatch \o SubmitFinally
    [] v = "falsy"    -> SubmitFinally
    [] w              -> <<SetSubmitting(TRUE), AwaitApi>>
    [] OTHER          -> <<SetSubmitting(TRUE)>> \o SuccessTail \o SubmitFinally

\* handleSubmit from the point where api.submitForm(form) has settled with a
AfterApi(a) ==
  IF a = "resolved"
  THEN SuccessTail \o SubmitFinally
  ELSE SubmitCatch \o SubmitFinally

\* the Submit button: u-button ignores clicks while :loading is true
SubmitClickable == ~submitting /\ navBacks = 0

ApplyForm(st) ==
  /\ submitting' = st.submitting
  /\ timers' = st.timers
  /\ flog' = st.flog

\* a click on Submit: handleSubmit up to "await formRef.value.validate()"
handleSubmit ==
  /\ SubmitClickable
  /\ Len(fcalls) < MaxSubmits
  /\ ApplyForm(FormRun(FormState, <<AwaitValidate>>, Len(fcalls) + 1))
  /\ fcalls' = Append(fcalls, [pc |-> "validating", validate |-> "pending",
                               api |-> "none"])
  /\ UNCHANGED navBacks

validateSettles(c, v) ==
  /\ c \in 1..Len(fcalls)
  /\ fcalls[c].pc = "validating"
  /\ fcalls[c].validate = "pending"
  /\ fcalls' = [fcalls EXCEPT ![c].validate = v]
  /\ UNCHANGED <<submitting, flog, timers, navBacks>>

handleSubmitAfterValidate(c) ==
  /\ c \in 1..Len(fcalls)
  /\ fcalls[c].pc = "validating"
  /\ fcalls[c].validate # "pending"
  /\ LET stmts == AfterValidate(wired, fcalls[c].validate)
         waits == stmts # <<>> /\ stmts[Len(stmts)].op = "awaitApi"
     IN  /\ ApplyForm(FormRun(FormState, stmts, c))
         /\ fcalls' = [fcalls EXCEPT
                         ![c].pc = IF waits THEN "calling" ELSE "done",
                         ![c].api = IF waits THEN "pending" ELSE "none"]
  /\ UNCHANGED navBacks

apiSettles(c, a) ==
  /\ c \in 1..Len(fcalls)
  /\ fcalls[c].pc = "calling"
  /\ fcalls[c].api = "pending"
  /\ fcalls' = [fcalls EXCEPT ![c].api = a]
  /\ UNCHANGED <<submitting, flog, timers, navBacks>>

handleSubmitAfterApi(c) ==
  /\ c \in 1..Len(fcalls)
  /\ fcalls[c].pc = "calling"
  /\ fcalls[c].api # "pending"
  /\ ApplyForm(FormRun(FormState, AfterApi(fcalls[c].api), c))
  /\ fcalls' = [fcalls EXCEPT ![c].pc = "done"]
  /\ UNCHANGED navBacks

\* 1500 ms later: uni.navigateBack()
navigateBackTimer ==
  /\ timers > 0
  /\ timers' = timers - 1
  /\ navBacks' = navBacks + 1
  /\ UNCHANGED <<submitting, fcalls, flog>>

FormInit ==
  /\ submitting = FALSE
  /\ fcalls = <<>>
  /\ flog = <<>>
  /\ timers = 0
  /\ navBacks = 0

-----------------------------------------------------------------------------
(* The user store *)

\* JavaScript values the store's fields can hold
Str(s) == [type |-> "string", val |-> s]
Undefined == [type |-> "undefined", val |-> ""]
JsNull == [type |-> "null", val |-> ""]
Obj(n) == [type |-> "object", val |-> n]

\* the !! of a value
ToBoolean(v) ==
  CASE v.type = "string" -> v.val # ""
    [] v.type = "object" -> TRUE
    [] OTHER             -> FALSE

\* what api.login(credentials) may resolve with; the last one is a response
\* body that carries neither field
LoginResults ==
  { [token |-> Str("t1"), user |-> Obj("u1")],
    [token |-> Str("t2"), user |-> Obj("u2")],
    [token |-> Str(""),   user |-> Obj("u1")],
    [token |-> Undefined, user |-> Undefined] }

LoginPending == [kind |-> "pending", data |-> [token |-> Undefined, user |-> Undefined]]
LoginResolved(d) == [kind |-> "resolved", data |-> d]
LoginRejected == [kind |-> "rejected", data |-> [token |-> Undefined, user |-> Undefined]]
LoginOutcomes == {LoginResolved(d) : d \in LoginResults} \cup {LoginRejected}

\* an assignment this.<field> = <value>
Assign(f, v) == [field |-> f, value |-> v]

UserExec(st, s) ==
  [token    |-> IF s.field = "token" THEN s.value ELSE st.token,
   userInfo |-> IF s.field = "userInfo" THEN s.value ELSE st.userInfo]

RECURSIVE UserRun(_, _)
UserRun(st, stmts) ==
  IF stmts = <<>> THEN st ELSE UserRun(UserExec(st, Head(stmts)), Tail(stmts))

UserState == [token |-> token, userInfo |-> userInfo]

\* Faulty variant: isLoggedIn: (state) => state.token !== null
isLoggedIn_NotNull == token.type # "null"

\* getters.isLoggedIn
isLoggedIn == ToBoolean(token)

\* Faulty variant: login that forgets this.userInfo = data.user
LoginAfterAwait_TokenOnly(o) ==
  IF o.kind = "resolved" THEN <<Assign("token", o.data.token)>> ELSE <<>>

\* Faulty variant: login that logs the user out when the call fails
LoginAfterAwait_ClearsOnError(o) ==
  IF o.kind = "resolved"
  THEN <<Assign("token", o.data.token), Assign("userInfo", o.data.user)>>
  ELSE <<Assign("token", Str("")), Assign("userInfo", JsNull)>>

\* login after "await api.login(credentials)" has settled with o: a rejection
\* leaves the function at the await
LoginAfterAwait(o) ==
  IF o.kind = "resolved"
  THEN <<Assign("token", o.data.token), Assign("userInfo", o.data.user)>>
  ELSE <<>>

\* logout()
LogoutBody == <<Assign("token", Str("")), Assign("userInfo", JsNull)>>

UserOp(o, c) == [op |-> o, call |-> c]

\* the logins in flight are no longer alone with the store once it is written
Disturbed(cs, wrote) ==
  [c \in 1..Len(cs) |->
     IF wrote /\ cs[c].pc = "awaiting" THEN [cs[c] EXCEPT !.clean = FALSE]
     ELSE cs[c]]

\* login(credentials) up to its await
login ==
  /\ Len(ucalls) < MaxLogins
  /\ ucalls' = Append(ucalls, [pc |-> "awaiting", promise |-> LoginPending,
                               before |-> UserState, clean |-> TRUE])
  /\ lastUserOp' = UserOp("login", Len(ucalls) + 1)
  /\ UNCHANGED <<token, userInfo, logoutAt>>

\* api.login settles
loginSettles(c, o) ==
  /\ c \in 1..Len(ucalls)
  /\ ucalls[c].pc = "awaiting"
  /\ ucalls[c].promise.kind = "pending"
  /\ o \in LoginOutcomes
  /\ ucalls' = [ucalls EXCEPT ![c].promise = o]
  /\ UNCHANGED <<token, userInfo, logoutAt, lastUserOp>>

\* login resumes after its await
loginResume(c) ==
  /\ c \in 1..Len(ucalls)
  /\ ucalls[c].pc = "awaiting"
  /\ ucalls[c].promise.kind # "pending"
  /\ LET stmts == LoginAfterAwait(ucalls[c].promise)
         st == UserRun(UserState, stmts)
     IN  /\ token' = st.token
         /\ userInfo' = st.userInfo
         /\ ucalls' = [Disturbed(ucalls, stmts # <<>>) EXCEPT ![c].pc = "done"]
  /\ lastUserOp' = UserOp(IF ucalls[c].promise.kind = "resolved"
                          THEN "loginResolved" ELSE "loginRejected", c)
  /\ UNCHANGED logoutAt

logout ==
  /\ LET st == UserRun(UserState, LogoutBody)
     IN  /\ token' = st.token
         /\ userInfo' = st.userInfo
  /\ ucalls' = Disturbed(ucalls, TRUE)
  /\ logoutAt' = Some(Len(ucalls))
  /\ lastUserOp' = UserOp("logout", 0)

\* state: () => ({ userInfo: null, token: '' })
UserInit ==
  /\ token = Str("")
  /\ userInfo = JsNull
  /\ ucalls = <<>>
  /\ logoutAt = Null
  /\ lastUserOp = UserOp("none", 0)

-----------------------------------------------------------------------------
(* The request wrapper *)

\* a header object is a set of <<name, value>> pairs, a value is a tuple of words
Tokens == {"", "t1", "t2"}

\* the options.header a caller builds: none, or an object
SuppliedHeaders ==
  { Null,
    Some({<<"X-Trace", <<"1">>>>}),
    Some({<<"X-Trace", <<"1">>>>, <<"Authorization", <<"Basic", "x">>>>}) }

\* ...options.header: spreading undefined adds nothing
HeaderOf(h) == IF h = Null THEN {} ELSE h[1]

\* `Bearer ${token}`
Bearer(t) == <<"Bearer", t>>

\* { ...options.header, Authorization: `Bearer ${token}` }
WithAuthorization(h, t) ==
  {p \in HeaderOf(h) : p[1] # "Authorization"} \cup {<<"Authorization", Bearer(t)>>}

\* a caller builds an options object
newOptions(h) ==
  /\ Len(heap) < MaxOptions
  /\ heap' = Append(heap, [header |-> h, supplied |-> h])
  /\ UNCHANGED <<wrapperToken, sent>>

\* setToken(newToken)
setToken(newToken) ==
  /\ wrapperToken' = newToken
  /\ UNCHANGED <<heap, sent>>

\* request(options), options being the object o of the heap: the header is
\* assigned to the caller's object, which is then passed to uni.request
request(o) ==
  /\ o \in 1..Len(heap)
  /\ Len(sent) < MaxRequests
  /\ LET h == IF wrapperToken # ""
              THEN Some(WithAuthorization(heap[o].header, wrapperToken))
              ELSE heap[o].header
     IN  /\ heap' = [heap EXCEPT ![o].header = h]
         /\ sent' = Append(sent, [options |-> o, header |-> h,
                                  token |-> wrapperToken])
  /\ UNCHANGED wrapperToken

\* let token = ""
RequestInit ==
  /\ wrapperToken = ""
  /\ heap = <<>>
  /\ sent = <<>>

-----------------------------------------------------------------------------
(* From a list to the detail page *)

\* the lists a page may display
ShownLists == (ApiResults \ {<<>>}) \cup {<<Item(10, <<"a">>, 1)>>}

Digits == <<"0", "1", "2", "3", "4", "5", "6", "7", "8", "9">>

\* `${item.id}`: the decimal digits of a non-negative integer
RECURSIVE NumberToString(_)
NumberToString(n) ==
  IF n < 10 THEN <<Digits[n + 1]>>
  ELSE NumberToString(n \div 10) \o <<Digits[(n % 10) + 1]>>

\* `/pages/detail/index?id=${item.id}`
DetailUrl(item) ==
  [path |-> "/pages/detail/index", query |-> <<<<"id", NumberToString(item.id)>>>>]

\* the queries the detail page is opened with from outside the list: none, an
\* id, an empty id, another parameter
DirectQueries ==
  { <<>>,
    <<<<"id", <<"7">>>>>>,
    <<<<"id", <<>>>>>>,
    <<<<"tab", <<"1">>>>>> }

\* the options object the framework hands to onLoad: the query's values, as
\* strings
ParseQuery(q) ==
  [id |-> IF \E i \in 1..Len(q) : q[i][1] = "id"
          THEN Some(q[CHOOSE i \in 1..Len(q) : q[i][1] = "id"][2])
          ELSE Null]

\* Faulty variant: if (Number(id))
IdTruthy_AsNumber(id) == id # Null /\ id[1] \notin {<<>>, <<"0">>}

\* if (id), id being undefined or a string
IdTruthy(id) == id # Null /\ Len(id[1]) > 0

\* uni.navigateTo({ url }) followed by the framework opening the page
navigateTo(url, how, item) ==
  /\ Len(visits) < MaxVisits
  /\ route' = "detail"
  /\ options' = ParseQuery(url.query)
  /\ pageLoaded' = FALSE
  /\ visits' = Append(visits, [via |-> how, id |-> item,
                               options |-> ParseQuery(url.query),
                               loadDetail |-> Null])
  /\ UNCHANGED shown

\* list page: a click on the i-th item
viewDetail(i) ==
  /\ route = "list"
  /\ i \in 1..Len(shown)
  /\ navigateTo(DetailUrl(shown[i]), "viewDetail", Some(shown[i].id))

\* page template: onItemClick(item)
onItemClick(i) ==
  /\ route = "list"
  /\ i \in 1..Len(shown)
  /\ navigateTo(DetailUrl(shown[i]), "onItemClick", Some(shown[i].id))

\* the detail page is opened by a link from elsewhere
openDirect(q) ==
  /\ route = "list"
  /\ navigateTo([path |-> "/pages/detail/index", query |-> q], "direct", Null)

\* detail page: onLoad((options) => { const id = options.id; if (id) loadDetail(id) })
detailOnLoad ==
  /\ route = "detail"
  /\ ~pageLoaded
  /\ pageLoaded' = TRUE
  /\ visits' = IF IdTruthy(options.id)
                THEN [visits EXCEPT ![Len(visits)].loadDetail = Some(options.id[1])]
                ELSE visits
  /\ UNCHANGED <<shown, route, options>>

\* the user goes back to the list
leaveDetail ==
  /\ route = "detail"
  /\ pageLoaded
  /\ route' = "list"
  /\ UNCHANGED <<shown, options, pageLoaded, visits>>

DetailIdle ==
  /\ route = "list"
  /\ options = [id |-> Null]
  /\ pageLoaded = FALSE
  /\ visits = <<>>

\* the parts a specification does not exercise, at rest
UserIdle == UserInit /\ RequestInit
NavigationIdle == DetailIdle /\ shown = <<>>

-----------------------------------------------------------------------------
(* The theme store *)

\* state.themes
Themes ==
  [default |-> [name |-> "Default", primary |-> "#1890ff", primaryDark |-> "#096dd9",
                success |-> "#52c41a", warning |-> "#faad14", error |-> "#f5222d",
                textPrimary |-> "#333333", textSecondary |-> "#999999",
                bgPage |-> "#f5f5f5", bgCard |-> "#ffffff"],
   dark    |-> [name |-> "Dark", primary |-> "#177ddc", primaryDark |-> "#1765ad",
                success |-> "#49aa19", warning |-> "#d89614", error |-> "#d32029",
                textPrimary |-> "#ffffff", textSecondary |-> "#8c8c8c",
                bgPage |-> "#141414", bgCard |-> "#1f1f1f"]]

ThemeKeys == DOMAIN Themes

\* themes is a plain object: a property read also finds what every object
\* inherits from Object.prototype
ObjectPrototypeKeys == {"constructor"}

\* names a caller may pass, or storage may hold
ThemeNames == {"default", "dark", "wechat", "web", "constructor", ""}

Platforms == {"MP-WEIXIN", "H5", "MP-ALIPAY", "APP"}

\* res.theme of a theme-change event
SystemThemes == {"dark", "light"}

\* this.themes[name]: "own" (a theme), "inherited" (truthy, no theme), "undefined"
Lookup(name) ==
  CASE name \in ThemeKeys           -> "own"
    [] name \in ObjectPrototypeKeys -> "inherited"
    [] OTHER                        -> "undefined"

Truthy(kind) == kind # "undefined"

\* getters.theme: state.themes[state.currentTheme]
theme == [kind |-> Lookup(currentTheme), key |-> currentTheme]

\* uni.getStorageSync('theme'): the empty string when nothing is stored
getStorageSync == IF storage = Null THEN "" ELSE storage[1]

\* Faulty variant: setTheme without the uni.setStorageSync call
setTheme_NotPersisted(themeName) ==
  IF ~Truthy(Lookup(themeName))
  THEN /\ Len(console) < MaxConsole
       /\ console' = Append(console, themeName)
       /\ UNCHANGED <<currentTheme, storage>>
  ELSE /\ currentTheme' = themeName
       /\ UNCHANGED <<storage, console>>

\* actions.setTheme; the console keeps the name of each theme not found
setTheme(themeName) ==
  IF ~Truthy(Lookup(themeName))
  THEN /\ Len(console) < MaxConsole
       /\ console' = Append(console, themeName)
       /\ UNCHANGED <<currentTheme, storage>>
  ELSE /\ currentTheme' = themeName
       /\ storage' = Some(themeName)
       /\ UNCHANGED console

\* Faulty variant: loadSavedTheme that reads the storage and assigns nothing
loadSavedTheme_NothingRestored == UNCHANGED <<currentTheme, storage, console>>

\* actions.loadSavedTheme
loadSavedTheme ==
  LET saved == getStorageSync IN
  /\ IF saved # "" /\ Truthy(Lookup(saved))
     THEN currentTheme' = saved
     ELSE UNCHANGED currentTheme
  /\ UNCHANGED <<storage, console>>

\* let defaultTheme = 'default', overwritten under #ifdef MP-WEIXIN and #ifdef H5
PlatformDefaultTheme(pf) ==
  CASE pf = "MP-WEIXIN" -> "wechat"
    [] pf = "H5"        -> "web"
    [] OTHER            -> "default"

\* Faulty variant: the callback hands res.theme to the store as it is
ThemeChangeTarget_Raw(resTheme) == resTheme

\* res.theme === 'dark' ? 'dark' : 'default'
ThemeChangeTarget(resTheme) == IF resTheme = "dark" THEN "dark" ELSE "default"

Op(o, a) == [op |-> o, arg |-> a]

\* the record of a setTheme(name) call: it counts as set when the call wrote
\* nothing to the console
Recorded(name) ==
  /\ lastSet' = IF console' = console THEN Some(name) ELSE lastSet
  /\ loadedFresh' = FALSE

\* a caller (the theme switcher, any component) sets a theme
callSetTheme(name) ==
  /\ setTheme(name)
  /\ Recorded(name)
  /\ lastOp' = Op("setTheme", name)
  /\ UNCHANGED <<platform, listening>>

\* a started app restores the saved theme
callLoadSavedTheme ==
  /\ loadSavedTheme
  /\ lastOp' = Op("loadSavedTheme", getStorageSync)
  /\ loadedFresh' = (lastOp.op = "createStore")
  /\ UNCHANGED <<platform, listening, lastSet>>

\* the platform-specific snippet: themeStore.setTheme(defaultTheme)
platformSnippet ==
  /\ setTheme(PlatformDefaultTheme(platform))
  /\ Recorded(PlatformDefaultTheme(platform))
  /\ lastOp' = Op("platformSnippet", platform)
  /\ UNCHANGED <<platform, listening>>

\* the app is started again: defineStore's state() builds a new store, the
\* storage is what the earlier run left
createStore ==
  /\ currentTheme' = "default"
  /\ console' = <<>>
  /\ listening' = FALSE
  /\ lastOp' = Op("createStore", "")
  /\ loadedFresh' = FALSE
  /\ UNCHANGED <<storage, platform, lastSet>>

\* uni.onThemeChange((res) => { ... }) registers the callback
registerThemeListener ==
  /\ ~listening
  /\ listening' = TRUE
  /\ UNCHANGED <<currentTheme, storage, console, platform, lastOp, lastSet,
                 loadedFresh>>

\* the system theme changes and the registered callback runs
onThemeChange(resTheme) ==
  /\ listening
  /\ setTheme(ThemeChangeTarget(resTheme))
  /\ Recorded(ThemeChangeTarget(resTheme))
  /\ lastOp' = Op("themeChange", resTheme)
  /\ UNCHANGED <<platform, listening>>

ThemeInit ==
  /\ currentTheme = "default"
  /\ storage \in {Null} \cup {Some(n) : n \in ThemeNames}
  /\ console = <<>>
  /\ platform \in Platforms
  /\ listening = FALSE
  /\ lastOp = Op("none", "")
  /\ lastSet = Null
  /\ loadedFresh = FALSE

\* the loading page, at rest
PageIdle ==
  /\ pattern = "template"
  /\ phase = "created"
  /\ loading = FALSE
  /\ items = <<>>
  /\ error = Null
  /\ calls = <<>>
  /\ log = <<>>
  /\ currentTab = 0
  /\ searchText = <<>>

SetThemeCall == \E n \in ThemeNames : callSetTheme(n) /\ UNCHANGED notTheme
LoadSavedThemeCall == callLoadSavedTheme /\ UNCHANGED notTheme
PlatformSnippet == platformSnippet /\ UNCHANGED notTheme
RegisterThemeListener == registerThemeListener /\ UNCHANGED notTheme
ThemeChange == \E t \in SystemThemes : onThemeChange(t) /\ UNCHANGED notTheme
CreateStore == createStore /\ UNCHANGED notTheme

ThemeNext ==
  \/ SetThemeCall
  \/ LoadSavedThemeCall
  \/ PlatformSnippet
  \/ RegisterThemeListener
  \/ ThemeChange
  \/ CreateStore

ThemeStart ==
  /\ ThemeInit
  /\ PageIdle
  /\ wired = FALSE
  /\ FormInit
  /\ StyleIdle
  /\ UserIdle
  /\ NavigationIdle
  /\ injected = TRUE

ThemeSpec == ThemeStart /\ [][ThemeNext]_vars

-----------------------------------------------------------------------------
(* The loading page *)

Init ==
  /\ pattern \in Patterns
  /\ wired \in BOOLEAN
  /\ (pattern = "skill" => wired)
  /\ phase = "created"
  /\ loading = FALSE
  /\ items = <<>>
  /\ error = Null
  /\ calls = <<>>
  /\ log = <<>>
  /\ currentTab = 0
  /\ searchText = <<>>
  /\ ThemeInit
  /\ storage = Null
  /\ platform = "H5"
  /\ FormInit
  /\ StyleIdle
  /\ UserIdle
  /\ NavigationIdle
  /\ injected = TRUE

PageLoad == onLoad /\ UNCHANGED notPage
Mounted == onMounted /\ UNCHANGED notPage
Refresh == onRefresh /\ UNCHANGED notPage
Settle ==
  \E c \in 1..MaxLoads : \E o \in Outcomes(pattern, wired) :
    awaitSettles(c, o) /\ UNCHANGED notPage
Resume == \E c \in 1..MaxLoads : loadDataResume(c) /\ UNCHANGED notPage
TabClick == \E i \in TabIndexes : handleTabClick(i) /\ UNCHANGED notPage
Search == \E t \in SearchTexts : inputSearch(t) /\ UNCHANGED notPage

Next ==
  \/ PageLoad
  \/ Mounted
  \/ Refresh
  \/ Settle
  \/ Resume
  \/ TabClick
  \/ Search

Spec == Init /\ [][Next]_vars

\* the event loop runs a continuation once its promise has settled, and the
\* awaited call (a timer, a request) does settle: it resolves or it throws
Fairness ==
  \A c \in 1..MaxLoads :
    /\ WF_vars(\E o \in Outcomes(pattern, wired) :
                 awaitSettles(c, o) /\ UNCHANGED notPage)
    /\ WF_vars(loadDataResume(c) /\ UNCHANGED notPage)

LiveSpec == Init /\ [][Next]_vars /\ Fairness

-----------------------------------------------------------------------------
(* Properties of the loading page *)

Started(c) == c \in 1..Len(calls)
InFlight(c) == Started(c) /\ calls[c].pc = "awaiting"
Completed(c) == Started(c) /\ calls[c].pc = "done"

\* the statements call c has executed, in order
CallLog(c) == SelectSeq(log, LAMBDA e : e.call = c)

\* the statements executed by the step that is being taken
NewEntries == SubSeq(log', Len(log) + 1, Len(log'))

\* C1: every loadData call that has started completes, whether its awaited
\* call resolves or throws, and loading is false when it completes
C1_LoadAlwaysClearsLoading ==
  /\ \A c \in 1..MaxLoads : InFlight(c) ~> (Completed(c) /\ ~loading)
  /\ [][\A c \in 1..MaxLoads :
          (~Completed(c) /\ Completed(c)') => ~loading']_vars

C1_Witness ==
  \E c \in 1..Len(calls) :
    /\ Completed(c)
    /\ calls[c].promise.kind = "rejected"
    /\ ~loading

\* C2: when the awaited call of the page template's loadData throws, the
\* resuming step sets error to the Error's message, or to "Failed to load
\* data" for a non-Error, shows one toast titled with that very string before
\* it clears loading, and leaves items as it was (the call never assigns it)
C2_ThrowSetsErrorToastsThenClears ==
  [][\A c \in 1..MaxLoads :
       ( /\ pattern = "template"
         /\ InFlight(c)
         /\ calls[c].promise.kind = "rejected"
         /\ Completed(c)' )
       =>
       LET thrown == calls[c].promise
           msg == IF thrown.isError THEN thrown.message ELSE "Failed to load data"
           new == NewEntries
           toasts == {i \in 1..Len(new) : new[i].op = "toast"}
           clears == {i \in 1..Len(new) : new[i].op = "loading" /\ ~new[i].flag}
       IN  /\ error' = Some(msg)
           /\ items' = items
           /\ \A i \in 1..Len(CallLog(c)') : CallLog(c)'[i].op # "items"
           /\ ~loading'
           /\ Cardinality(toasts) = 1
           /\ \A i \in toasts : new[i].text = Some(msg)
           /\ clears # {}
           /\ \A i \in toasts : \A j \in clears : i < j]_vars

C2_Witness ==
  \E c \in 1..Len(calls) :
    /\ pattern = "template"
    /\ Completed(c)
    /\ calls[c].promise.kind = "rejected"
    /\ ~calls[c].promise.isError
    /\ error = Some("Failed to load data")
    /\ items = <<>>
    /\ \E i \in 1..Len(log) :
         log[i].call = c /\ log[i].op = "toast" /\ log[i].text = error

\* positions in the statements of call c
Where(c, o, f) ==
  {i \in 1..Len(CallLog(c)) : CallLog(c)[i].op = o /\ CallLog(c)[i].flag = f}

\* C3: a successful loadData of the page template sets loading, then awaits,
\* then assigns items, then clears loading; while the await is outstanding it
\* has neither assigned items nor cleared loading
C3_SuccessfulLoadOrder ==
  \A c \in 1..Len(calls) :
    pattern = "template" =>
      /\ InFlight(c) =>
           /\ Where(c, "items", FALSE) = {}
           /\ Where(c, "loading", FALSE) = {}
           /\ Where(c, "loading", TRUE) # {}
      /\ (Completed(c) /\ calls[c].promise.kind = "resolved") =>
           /\ Cardinality(Where(c, "loading", TRUE)) = 1
           /\ Cardinality(Where(c, "await", FALSE)) = 1
           /\ Cardinality(Where(c, "items", FALSE)) = 1
           /\ Cardinality(Where(c, "loading", FALSE)) = 1
           /\ \A i \in Where(c, "loading", TRUE) : \A j \in Where(c, "await", FALSE) :
                \A k \in Where(c, "items", FALSE) : \A l \in Where(c, "loading", FALSE) :
                  i < j /\ j < k /\ k < l

C3_Witness ==
  \E c \in 1..Len(calls) :
    /\ pattern = "template"
    /\ wired
    /\ Completed(c)
    /\ calls[c].promise.kind = "resolved"
    /\ items # <<>>
    /\ ~loading

\* C4: in the page template no two loadData calls are ever in flight together,
\* whatever the page-load event and the Refresh clicks do
C4_AtMostOneLoadInFlight ==
  pattern = "template" =>
    Cardinality({c \in 1..Len(calls) : InFlight(c)}) <= 1

C4_Witness ==
  /\ pattern = "template"
  /\ Len(calls) >= 2
  /\ Completed(1)
  /\ InFlight(2)

\* C5: in the page template loading is true whenever a loadData call is in
\* flight, so the loading indicator is on screen during the whole load
C5_InFlightImpliesLoading ==
  pattern = "template" =>
    \A c \in 1..Len(calls) : InFlight(c) => (loading /\ LoadingShown)

C5_Witness ==
  /\ pattern = "template"
  /\ InFlight(2)
  /\ calls[2].promise.kind = "rejected"
  /\ loading

\* C6: in the page template and in the list page the empty state is on screen
\* exactly when loading is false and the shown list (items, on the list page
\* filteredItems) is empty, and never together with the loading indicator
C6_EmptyStateExactlyWhenIdleAndEmpty ==
  pattern \in {"template", "list"} =>
    /\ EmptyShown <=>
         (loading = FALSE /\
          Len(IF pattern = "list" THEN filteredItems ELSE items) = 0)
    /\ ~(LoadingShown /\ EmptyShown)

C6_Witness ==
  /\ pattern = "list"
  /\ ~loading
  /\ items # <<>>
  /\ filteredItems = <<>>
  /\ EmptyShown

-----------------------------------------------------------------------------
(* Properties of the theme store *)

\* C7: setTheme(name) with a name that is a key of themes leaves currentTheme
\* = name and the stored 'theme' = name, so the theme getter returns
\* themes[name] and the persisted name equals currentTheme
C7_SetThemeSetsAndPersists ==
  (lastOp.op = "setTheme" /\ lastOp.arg \in {"default", "dark"}) =>
    /\ currentTheme = lastOp.arg
    /\ storage = Some(lastOp.arg)
    /\ theme = [kind |-> "own", key |-> lastOp.arg]
    /\ getStorageSync = currentTheme

C7_Witness ==
  /\ lastOp = Op("setTheme", "dark")
  /\ currentTheme = "dark"
  /\ storage = Some("dark")

\* C8: after the platform-specific snippet has run, currentTheme is 'wechat'
\* on MP-WEIXIN, 'web' on H5 and 'default' on every other platform
C8_PlatformSnippetSetsPlatformTheme ==
  lastOp.op = "platformSnippet" =>
    currentTheme = (CASE platform = "MP-WEIXIN" -> "wechat"
                      [] platform = "H5"        -> "web"
                      [] OTHER                  -> "default")

\* C9: after every theme-change event delivered to the registered callback,
\* currentTheme is 'dark' if the event reports 'dark' and 'default' otherwise
C9_ThemeChangeFollowsSystem ==
  lastOp.op = "themeChange" =>
    currentTheme = (IF lastOp.arg = "dark" THEN "dark" ELSE "default")

C9_Witness ==
  /\ lastOp = Op("themeChange", "light")
  /\ listening
  /\ currentTheme = "default"
  /\ storage = Some("default")
  /\ console # <<>>

-----------------------------------------------------------------------------
(* The form page on its own *)

FormStart ==
  /\ FormInit
  /\ PageIdle
  /\ wired \in BOOLEAN
  /\ ThemeInit
  /\ storage = Null
  /\ platform = "H5"
  /\ StyleIdle
  /\ UserIdle
  /\ NavigationIdle
  /\ injected = TRUE

SubmitClick == handleSubmit /\ UNCHANGED notForm
ValidateSettles ==
  \E c \in 1..MaxSubmits : \E v \in ValidateResults :
    validateSettles(c, v) /\ UNCHANGED notForm
AfterValidateResumes ==
  \E c \in 1..MaxSubmits :
    handleSubmitAfterValidate(c) /\ UNCHANGED notForm
ApiSettles ==
  \E c \in 1..MaxSubmits : \E a \in ApiSubmitResults :
    apiSettles(c, a) /\ UNCHANGED notForm
AfterApiResumes ==
  \E c \in 1..MaxSubmits :
    handleSubmitAfterApi(c) /\ UNCHANGED notForm
NavigateBackTimer == navigateBackTimer /\ UNCHANGED notForm

FormNext ==
  \/ SubmitClick
  \/ ValidateSettles
  \/ AfterValidateResumes
  \/ ApiSettles
  \/ AfterApiResumes
  \/ NavigateBackTimer

FormSpec == FormStart /\ [][FormNext]_vars

\* C10: the success toast and the delayed navigateBack come only from a
\* handleSubmit call whose validate() had already resolved to a truthy value;
\* a call whose validation resolves falsy or rejects produces neither
C10_SuccessOnlyAfterValidation ==
  /\ \A i \in 1..Len(flog) :
       flog[i].op \in {"toastSuccess", "setTimeout"} =>
         /\ fcalls[flog[i].call].validate = "truthy"
         /\ \E j \in 1..(i - 1) :
              flog[j].call = flog[i].call /\ flog[j].op = "awaitValidate"
  /\ (\E i \in 1..Len(flog) : flog[i].op = "setTimeout") \/ (timers = 0 /\ navBacks = 0)

C10_Witness ==
  /\ Len(fcalls) >= 3
  /\ fcalls[1].pc = "done" /\ fcalls[1].validate = "falsy"
  /\ fcalls[2].pc = "done" /\ fcalls[2].validate = "rejected"
  /\ fcalls[3].pc = "done" /\ fcalls[3].validate = "truthy"
  /\ \E i \in 1..Len(flog) : flog[i].call = 3 /\ flog[i].op = "toastSuccess"
  /\ timers = 1

-----------------------------------------------------------------------------
(* Further properties of the form page *)

FormDone(c) == c \in 1..Len(fcalls) /\ fcalls[c].pc = "done"

\* an error was thrown during validation or during submission
FormThrew(c) == fcalls[c].validate = "rejected" \/ fcalls[c].api = "rejected"

\* validation passed and nothing was thrown
FormSucceeded(c) == fcalls[c].validate = "truthy" /\ fcalls[c].api # "rejected"

\* what call c has shown to the user
ShownBy(c) ==
  {i \in 1..Len(flog) : flog[i].call = c /\ flog[i].op \in UserVisibleOps}

\* C11: every completed handleSubmit call has shown feedback: a success toast
\* when the submission succeeded, an error notification when validation or
\* submission threw
C11_EveryCompletedSubmitShowsFeedback ==
  \A c \in 1..Len(fcalls) :
    FormDone(c) =>
      /\ FormSucceeded(c) => \E i \in ShownBy(c) : flog[i].op = "toastSuccess"
      /\ FormThrew(c) => \E i \in ShownBy(c) : flog[i].op # "toastSuccess"

-----------------------------------------------------------------------------
(* Further properties of the loading page *)

\* the letter a character stands for, whatever its case
LetterOf(ch) ==
  CASE ch \in {"a", "A"} -> 1
    [] ch \in {"b", "B"} -> 2
    [] OTHER             -> 0

\* title contains text, case-insensitively
ContainsIgnoringCase(title, text) ==
  \E off \in 0..(Len(title) - Len(text)) :
    \A j \in 1..Len(text) : LetterOf(title[off + j]) = LetterOf(text[j])

\* whether the list page is to show item under tab and search text
Wanted(item, tab, text) ==
  /\ tab > 0 => item.status = tab - 1
  /\ text # <<>> => ContainsIgnoringCase(item.title, text)

\* the wanted items of list, in the order of list
RECURSIVE WantedOf(_, _, _)
WantedOf(list, tab, text) ==
  IF list = <<>> THEN <<>>
  ELSE (IF Wanted(Head(list), tab, text) THEN <<Head(list)>> ELSE <<>>)
       \o WantedOf(Tail(list), tab, text)

\* C12: filteredItems is items filtered by tab (none for tab 0, status = k - 1
\* for tab k > 0) and by search text (title contains it, ignoring case), in
\* the order of items; with tab 0 and no search text it is items
C12_FilteredItemsIsTabThenSearch ==
  pattern = "list" =>
    /\ filteredItems = WantedOf(items, currentTab, searchText)
    /\ (currentTab = 0 /\ searchText = <<>>) => filteredItems = items

C12_Witness ==
  /\ pattern = "list"
  /\ Len(items) = 2
  /\ items[1].status = 0
  /\ currentTab = 2
  /\ searchText = <<"B", "A">>
  /\ filteredItems = <<items[2]>>

-----------------------------------------------------------------------------
(* Compiling the style blocks *)

StyleStart ==
  /\ StyleIdle
  /\ UserIdle
  /\ NavigationIdle
  /\ injected \in BOOLEAN
  /\ PageIdle
  /\ wired = FALSE
  /\ ThemeInit
  /\ storage = Null
  /\ platform = "H5"
  /\ FormInit

CompileStart == \E p \in StylePages : compileStart(p) /\ UNCHANGED notStyle
ResolveNext == resolveNext /\ UNCHANGED notStyle
CompileEnd == compileEnd /\ UNCHANGED notStyle
CompileAbort == compileAbort /\ UNCHANGED notStyle

StyleNext ==
  \/ CompileStart
  \/ ResolveNext
  \/ CompileEnd
  \/ CompileAbort

StyleSpec == StyleStart /\ [][StyleNext]_vars

\* C13: with the theme file of the basic theme setup injected, compiling the
\* style block of the page template or of the list, detail, form or search
\* page never meets an undefined variable: every token they reference is one
\* the theme file defines
C13_NoUndefinedToken ==
  injected =>
    /\ styleError = Null
    /\ \A p \in {"template", "list", "detail", "form", "search"} :
         \A i \in 1..Len(StyleRefs(p)) : StyleRefs(p)[i] \in InScope

C13_Witness ==
  /\ injected
  /\ {"template", "list", "detail", "form", "search"} \subseteq compiledOk
  /\ styleError = Null

-----------------------------------------------------------------------------
(* Further properties of the theme store *)

\* C14: whatever setTheme and loadSavedTheme are given, and whatever storage
\* holds, currentTheme is a key of themes and the theme getter returns a theme
C14_CurrentThemeIsAKey ==
  /\ currentTheme \in {"default", "dark"}
  /\ theme.kind = "own"

\* C15: setTheme(name) with a name that is no key of themes reports an error
\* and leaves currentTheme and the stored 'theme' as they were
C15_UnknownThemeRejected ==
  [][\A n \in ThemeNames \ {"default", "dark"} :
       callSetTheme(n) =>
         /\ console' = Append(console, n)
         /\ currentTheme' = currentTheme
         /\ storage' = storage]_vars

\* C16: loadSavedTheme on a newly created store restores the name of the last
\* setTheme call that succeeded
C16_SavedThemeRoundTrips ==
  (lastOp.op = "loadSavedTheme" /\ loadedFresh /\ lastSet # Null) =>
    /\ currentTheme = lastSet[1]
    /\ storage = lastSet

C16_Witness ==
  /\ lastOp.op = "loadSavedTheme"
  /\ loadedFresh
  /\ lastSet = Some("dark")
  /\ currentTheme = "dark"

\* C17: loadSavedTheme never changes the storage, and leaves currentTheme
\* unchanged when storage holds no 'theme' or a name that is no key of themes
C17_LoadSavedThemeFrame ==
  [][callLoadSavedTheme =>
       /\ storage' = storage
       /\ (storage = Null \/ storage[1] \notin {"default", "dark"})
            => currentTheme' = currentTheme]_vars

-----------------------------------------------------------------------------
(* The error message of the page template *)

\* the call that completed last: the one that executed the last statement
LastCompleted == log[Len(log)].call

\* C18: in the page template a load in flight has reset error to null, and
\* when no load is in flight error is non-null exactly when the load that
\* completed last threw
C18_ErrorTracksLastLoad ==
  pattern = "template" =>
    /\ \A c \in 1..Len(calls) : InFlight(c) => error = Null
    /\ calls = <<>> => error = Null
    /\ (calls # <<>> /\ \A c \in 1..Len(calls) : Completed(c)) =>
         (error # Null <=> calls[LastCompleted].promise.kind = "rejected")

C18_Witness ==
  /\ pattern = "template"
  /\ Len(calls) >= 2
  /\ calls[1].promise.kind = "rejected"
  /\ Completed(2)
  /\ calls[2].promise.kind = "resolved"
  /\ LastCompleted = 2
  /\ error = Null

-----------------------------------------------------------------------------
(* The submitting flag of the form page *)

\* C19: submitting is false when a handleSubmit call completes, whichever
\* path it took; submitting is raised only by a call whose validation resolved
\* truthy, and it is true only while such a call has not yet completed
C19_SubmittingOnlyDuringSubmission ==
  /\ [][\A c \in 1..MaxSubmits :
          (c <= Len(fcalls) /\ ~FormDone(c) /\ FormDone(c)') => ~submitting']_vars
  /\ [](\A i \in 1..Len(flog) :
          (flog[i].op = "submitting" /\ flog[i].flag) =>
            fcalls[flog[i].call].validate = "truthy")
  /\ [](submitting =>
          \E c \in 1..Len(fcalls) :
            fcalls[c].validate = "truthy" /\ fcalls[c].pc = "calling")

C19_Witness ==
  /\ wired
  /\ Len(fcalls) >= 3
  /\ FormDone(1) /\ fcalls[1].validate = "truthy" /\ fcalls[1].api = "rejected"
  /\ FormDone(2) /\ fcalls[2].validate = "falsy"
  /\ FormDone(3) /\ fcalls[3].validate = "truthy" /\ fcalls[3].api = "resolved"
  /\ ~submitting

\* C20: during one visit of the form page at most one delayed navigateBack is
\* pending and at most one success toast has been shown
C20_AtMostOneSuccess ==
  /\ timers <= 1
  /\ Cardinality({i \in 1..Len(flog) : flog[i].op = "toastSuccess"}) <= 1

-----------------------------------------------------------------------------
(* The user store *)

UserStart ==
  /\ UserInit
  /\ RequestInit
  /\ NavigationIdle
  /\ PageIdle
  /\ wired = FALSE
  /\ ThemeInit
  /\ storage = Null
  /\ platform = "H5"
  /\ FormInit
  /\ StyleIdle
  /\ injected = TRUE

Login == login /\ UNCHANGED notUser
LoginSettles ==
  \E c \in 1..MaxLogins : \E o \in LoginOutcomes :
    loginSettles(c, o) /\ UNCHANGED notUser
LoginResume == \E c \in 1..MaxLogins : loginResume(c) /\ UNCHANGED notUser
Logout == logout /\ UNCHANGED notUser

UserNext ==
  \/ Login
  \/ LoginSettles
  \/ LoginResume
  \/ Logout

UserSpec == UserStart /\ [][UserNext]_vars

\* C21: isLoggedIn is true exactly when token is a non-empty string; right
\* after a login whose API call resolved, token and userInfo are the returned
\* token and user; right after logout token is '' and userInfo is null, and
\* isLoggedIn is false
C21_LoginStateFollowsToken ==
  /\ isLoggedIn <=> (token.type = "string" /\ token.val # "")
  /\ lastUserOp.op = "loginResolved" =>
       /\ token = ucalls[lastUserOp.call].promise.data.token
       /\ userInfo = ucalls[lastUserOp.call].promise.data.user
  /\ lastUserOp.op = "logout" =>
       /\ token = Str("")
       /\ userInfo = JsNull
       /\ ~isLoggedIn

C21_Witness ==
  /\ lastUserOp = UserOp("loginResolved", 2)
  /\ logoutAt = Some(1)
  /\ ucalls[1].pc = "done" /\ ucalls[1].promise.kind = "resolved"
  /\ token = Str("t2")
  /\ userInfo = Obj("u2")
  /\ isLoggedIn

\* C22: a login whose awaited API call rejected changes neither token nor
\* userInfo, so isLoggedIn keeps its value; when nothing else wrote the store
\* while the call was in flight, they are what they were when login was called
C22_FailedLoginChangesNothing ==
  [][\A c \in 1..MaxLogins :
       (loginResume(c) /\ ucalls[c].promise.kind = "rejected") =>
         /\ token' = token
         /\ userInfo' = userInfo
         /\ isLoggedIn' = isLoggedIn
         /\ ucalls[c].clean =>
              /\ token' = ucalls[c].before.token
              /\ userInfo' = ucalls[c].before.userInfo]_vars

C22_Witness ==
  /\ lastUserOp = UserOp("loginRejected", 2)
  /\ ucalls[2].clean
  /\ ucalls[1].pc = "done" /\ ucalls[1].promise.kind = "resolved"
  /\ token = Str("t1")
  /\ userInfo = Obj("u1")
  /\ isLoggedIn

\* C23: once logout has run, isLoggedIn is false until a login that was
\* started after that logout has completed
C23_LogoutHoldsUntilNewLogin ==
  (logoutAt # Null /\ isLoggedIn) =>
    \E c \in (logoutAt[1] + 1)..Len(ucalls) :
      ucalls[c].pc = "done" /\ ucalls[c].promise.kind = "resolved"

-----------------------------------------------------------------------------
(* The request wrapper *)

RequestStart ==
  /\ RequestInit
  /\ UserInit
  /\ NavigationIdle
  /\ PageIdle
  /\ wired = FALSE
  /\ ThemeInit
  /\ storage = Null
  /\ platform = "H5"
  /\ FormInit
  /\ StyleIdle
  /\ injected = TRUE

NewOptions == \E h \in SuppliedHeaders : newOptions(h) /\ UNCHANGED notRequest
SetToken == \E t \in Tokens : setToken(t) /\ UNCHANGED notRequest
Request == \E o \in 1..MaxOptions : request(o) /\ UNCHANGED notRequest

RequestNext ==
  \/ NewOptions
  \/ SetToken
  \/ Request

RequestSpec == RequestStart /\ [][RequestNext]_vars

\* the headers of h other than Authorization
Others(h) == {p \in HeaderOf(h) : p[1] # "Authorization"}

\* C24: a request sent while the token is non-empty carries Authorization:
\* Bearer <token>, with that token, and the caller's other headers as the
\* caller supplied them; a request sent while the token is empty carries
\* exactly the headers the caller supplied
C24_RequestCarriesCurrentToken ==
  \A i \in 1..Len(sent) :
    LET r == sent[i]
        own == heap[r.options].supplied
    IN  IF r.token # ""
        THEN /\ {p \in HeaderOf(r.header) : p[1] = "Authorization"}
                  = {<<"Authorization", Bearer(r.token)>>}
             /\ Others(r.header) = Others(own)
        ELSE HeaderOf(r.header) = HeaderOf(own)

-----------------------------------------------------------------------------
(* The status labels of the list page *)

\* C25: under the tab "Pending" or "Completed" of the list page every
\* displayed item carries the status label that is the tab's name
C25_TabNameIsStatusLabel ==
  (pattern = "list" /\ currentTab \in {1, 2}) =>
    \A i \in 1..Len(filteredItems) :
      getStatusText(filteredItems[i].status) = statusTabs[currentTab + 1].name

C25_Witness ==
  /\ pattern = "list"
  /\ currentTab = 1
  /\ searchText = <<>>
  /\ Len(items) = 2
  /\ items[1].status = 2
  /\ filteredItems = <<items[2]>>
  /\ getStatusText(items[2].status) = "Pending"

-----------------------------------------------------------------------------
(* From a list to the detail page *)

DetailStart ==
  /\ DetailIdle
  /\ shown \in ShownLists
  /\ UserInit
  /\ RequestInit
  /\ PageIdle
  /\ wired = FALSE
  /\ ThemeInit
  /\ storage = Null
  /\ platform = "H5"
  /\ FormInit
  /\ StyleIdle
  /\ injected = TRUE

ViewDetail == \E i \in 1..2 : viewDetail(i) /\ UNCHANGED notDetail
ItemClick == \E i \in 1..2 : onItemClick(i) /\ UNCHANGED notDetail
OpenDirect == \E q \in DirectQueries : openDirect(q) /\ UNCHANGED notDetail
DetailOnLoad == detailOnLoad /\ UNCHANGED notDetail
LeaveDetail == leaveDetail /\ UNCHANGED notDetail

DetailNext ==
  \/ ViewDetail
  \/ ItemClick
  \/ OpenDirect
  \/ DetailOnLoad
  \/ LeaveDetail

DetailSpec == DetailStart /\ [][DetailNext]_vars

\* the visits whose onLoad has run
Loaded == {v \in 1..Len(visits) : v < Len(visits) \/ pageLoaded}

\* a click on an item opened the page with the item's id as the id parameter,
\* and onLoad called loadDetail with it
ClickLoadsItem(v) ==
  visits[v].id # Null =>
    /\ visits[v].options.id = Some(NumberToString(visits[v].id[1]))
    /\ visits[v].loadDetail = visits[v].options.id

\* C26 as stated: a click on any item, id 0 included, opens the detail page
\* with the item's id and onLoad calls loadDetail with it; loadDetail is not
\* called only when the page was opened without an id option
C26_EveryItemOpensItsDetail ==
  \A v \in Loaded :
    /\ ClickLoadsItem(v)
    /\ visits[v].loadDetail = Null => visits[v].options.id = Null

\* C26 as amended: as above, and loadDetail is not called only when the page
\* was opened without an id option or with an empty one
C26_EveryItemOpensItsDetail_OrEmptyId ==
  \A v \in Loaded :
    /\ ClickLoadsItem(v)
    /\ visits[v].loadDetail = Null => visits[v].options.id \in {Null, Some(<<>>)}
    /\ visits[v].options.id = Null => visits[v].loadDetail = Null

C26_Witness ==
  /\ Len(visits) = 2
  /\ pageLoaded
  /\ visits[1].via = "direct" /\ visits[1].options.id = Null
  /\ visits[1].loadDetail = Null
  /\ visits[2].via = "viewDetail" /\ visits[2].id = Some(0)
  /\ visits[2].loadDetail = Some(<<"0">>)

====
